---- MODULE Spec2Model ----
(***************************************************************************)
(* State-machine model of BaseConfig (src/src/circuit/ops/chip.rs): the    *)
(* configuration aggregate of the circuit engine, its gate configuration   *)
(* (configure), lookup configuration (configure_lookup), table layout      *)
(* (layout_tables) and operation layout (layout).                          *)
(*                                                                         *)
(* The constraint system (halo2 ConstraintSystem) is modelled by the       *)
(* resources the calls allocate in it: a selector counter, a table-column  *)
(* counter, the sequence of gates and the sequence of lookup arguments.    *)
(* Table (circuit/table.rs), VarTensor/ValTensor (tensor) and the Op trait *)
(* are not part of the sources at hand; they are modelled at the interface *)
(* the specification gives for them.                                       *)
(***************************************************************************)
EXTENDS Integers, Sequences, FiniteSets

VARIABLES
    phase,            \* "new" before configure, "configured" after, "panicked" after a failed assert
    inputs,           \* BaseConfig.inputs: the two input handles
    output,           \* BaseConfig.output
    lookup_input,     \* BaseConfig.lookup_input
    lookup_output,    \* BaseConfig.lookup_output
    selectors,        \* BaseConfig.selectors: (BaseOp, usize) -> Selector
    lookup_selectors, \* BaseConfig.lookup_selectors: (LookupOp, usize) -> Selector
    tables,           \* BaseConfig.tables: LookupOp -> Table
    check_mode,       \* BaseConfig.check_mode
    cs,               \* the ConstraintSystem the aggregate is configured in
    col_writes,       \* per table column: how many table layouts have written its cells
    reg_order,        \* history: the identities in the order configure_lookup registered them
    last              \* history: the last call, its arguments, what it did and what it returned

vars == <<phase, inputs, output, lookup_input, lookup_output, selectors,
          lookup_selectors, tables, check_mode, cs, col_writes, reg_order, last>>

aggregate == <<inputs, output, lookup_input, lookup_output, selectors,
               lookup_selectors, tables, check_mode>>

----------------------------------------------------------------------------
(* Bounds of the model *)

\* widest column handle: handles have 1..MaxCols columns
MaxCols == 2
\* nonlinear-operation identities (LookupOp keys) are 1..NumLookupOps, ordered as integers
NumLookupOps == 2
\* bit widths passed to configure_lookup are 1..MaxBits
MaxBits == 2
\* log row counts passed to configure_lookup are 1..MaxLogRows
MaxLogRows == 1
\* witness values are 0..MaxVal
MaxVal == 1

----------------------------------------------------------------------------
(* Column handles (VarTensor) *)

Empty == [kind |-> "Empty", cols |-> 0]

Advice(n) == [kind |-> "Advice", cols |-> n]

\* the handles a caller can pass: advice handles of 1..MaxCols columns
Handles == {Advice(n) : n \in 1..MaxCols}

num_cols(h) == h.cols

CheckModes == {"SAFE", "UNSAFE"}

LookupOps == 1..NumLookupOps

----------------------------------------------------------------------------
(* BTreeMap helpers *)

EmptyMap == [k \in {} |-> 0]

\* BTreeMap::insert: binds k to v, replacing an earlier binding of k
Insert(m, k, v) == [x \in DOMAIN m \cup {k} |-> IF x = k THEN v ELSE m[x]]

\* an extend that drops the bindings the map had
ExtendReplace(m, n) == n

\* BTreeMap::extend: every binding of n is inserted into m
Extend(m, n) == [x \in DOMAIN m \cup DOMAIN n |-> IF x \in DOMAIN n THEN n[x] ELSE m[x]]

\* the keys of an integer-keyed map in increasing order (BTreeMap iteration order)
KeyRank(m, k) == Cardinality({j \in DOMAIN m : j < k}) + 1

KeyAt(m, i) == CHOOSE k \in DOMAIN m : KeyRank(m, k) = i

----------------------------------------------------------------------------
(* Optional values and call results *)

None == [some |-> FALSE, val |-> 0]

Some(v) == [some |-> TRUE, val |-> v]

\* the record of a call that has not happened
NoCall ==
    [op |-> "none", args |-> <<>>, result |-> [kind |-> "none", val |-> 0],
     laid |-> <<>>, checked |-> FALSE]

----------------------------------------------------------------------------
(* The constraint system *)

\* ConstraintSystem::selector / complex_selector: the next free selector index
Selector(index, simple) == [index |-> index, simple |-> simple]

EmptyCs == [num_selectors |-> 0, num_table_cols |-> 0, gates |-> <<>>, lookups |-> <<>>]

----------------------------------------------------------------------------
(* Gate configuration: BaseConfig::configure *)

\* the primitives in the order configure inserts their selectors
BaseOps == <<"Add", "Sub", "Dot", "CumProd", "Sum", "Neg", "Mult", "IsZero", "Identity", "IsBoolean">>

OpIdx(op) == CHOOSE k \in 1..Len(BaseOps) : BaseOps[k] = op

\* a configure that keys every selector with column 0
ConfigureKeysColumnZero(W) ==
    [n \in 1..(Len(BaseOps) * W) |-> <<BaseOps[((n - 1) % Len(BaseOps)) + 1], 0>>]

\* the keys of the selector insertions of configure, in program order:
\* for i in 0..W, the ten primitives one after the other
ConfigureKeys(W) ==
    [n \in 1..(Len(BaseOps) * W) |->
        <<BaseOps[((n - 1) % Len(BaseOps)) + 1], (n - 1) \div Len(BaseOps)>>]

\* selectors.insert(key, meta.selector()) for every key of keys, in order;
\* next is the index meta.selector() hands out
RECURSIVE InsertSelectors(_, _, _)
InsertSelectors(keys, m, next) ==
    IF keys = <<>> THEN m
    ELSE InsertSelectors(Tail(keys), Insert(m, Head(keys), Selector(next, TRUE)), next + 1)

\* the order of the keys (BaseOp, usize) of the selector map: primitive first, then column
BaseKeyLess(a, b) ==
    \/ OpIdx(a[1]) < OpIdx(b[1])
    \/ a[1] = b[1] /\ a[2] < b[2]

BaseKeyAt(m, i) ==
    CHOOSE k \in DOMAIN m : Cardinality({j \in DOMAIN m : BaseKeyLess(j, k)}) + 1 = i

\* the gate configure creates for one entry of the selector map
BaseGate(key, selector) ==
    [kind |-> "base", name |-> key[1], col |-> key[2], selectors |-> <<selector>>]

\* one gate per entry of the selector map, in the map's iteration order
BaseGates(m) ==
    [i \in 1..Cardinality(DOMAIN m) |-> BaseGate(BaseKeyAt(m, i), m[BaseKeyAt(m, i)])]

\* a configure without its second assertion
WidthsAgreeInputsOnly(in0, in1, out) == num_cols(in0) = num_cols(in1)

\* the two assertions of configure: the handles have the same number of columns
WidthsAgree(in0, in1, out) ==
    num_cols(in0) = num_cols(in1) /\ num_cols(in0) = num_cols(out)

Configure(in0, in1, out, mode) ==
    /\ phase = "new"
    /\ last' = [NoCall EXCEPT !.op = "configure", !.args = <<in0, in1, out, mode>>,
                              !.result.kind = IF WidthsAgree(in0, in1, out)
                                              THEN "Ok" ELSE "panic"]
    /\ IF WidthsAgree(in0, in1, out)
       THEN LET W == num_cols(out)
                m == InsertSelectors(ConfigureKeys(W), EmptyMap, cs.num_selectors)
            IN /\ phase' = "configured"
               /\ selectors' = m
               /\ cs' = [cs EXCEPT !.num_selectors = @ + Len(ConfigureKeys(W)),
                                   !.gates = @ \o BaseGates(m)]
               /\ lookup_selectors' = EmptyMap
               /\ inputs' = <<in0, in1>>
               /\ lookup_input' = Empty
               /\ lookup_output' = Empty
               /\ tables' = EmptyMap
               /\ output' = out
               /\ check_mode' = mode
               /\ UNCHANGED <<col_writes, reg_order>>
       ELSE /\ phase' = "panicked"
            /\ UNCHANGED <<inputs, output, lookup_input, lookup_output, selectors,
                           lookup_selectors, tables, check_mode, cs, col_writes, reg_order>>

----------------------------------------------------------------------------
(* Evaluation of the primitive gates on one row *)

\* the order of the prime field F; a small prime stands for the field of the proofs
FieldModulus == 1009
\* rows of one column of a handle
ColSize == 2
\* cell values are 0..MaxCell and the field's -1
MaxCell == 2

\* reduction of an integer into the field
Fe(x) == x % FieldModulus

CellVals == (0..MaxCell) \cup {FieldModulus - 1}

\* VarTensor::col_size
col_size(h) == ColSize

\* VarTensor::query_rng: the rng cells from linear index idx_offset on, each
\* in column index / col_size at rotation rotation_offset + index % col_size
QueryRng(h, rotation_offset, idx_offset, rng) ==
    [i \in 1..rng |->
        [col |-> (idx_offset + i - 1) \div col_size(h),
         rot |-> rotation_offset + ((idx_offset + i - 1) % col_size(h))]]

\* BaseOp::num_inputs
NumInputs(op) == IF op \in {"Add", "Sub", "Mult", "Dot"} THEN 2 ELSE 1

\* BaseOp::f on (a, b, m)
BaseOpF(op, a, b, m) ==
    CASE op = "Add" -> Fe(a + b)
      [] op = "Sub" -> Fe(a - b)
      [] op = "Mult" -> Fe(a * b)
      [] op = "Neg" -> Fe(0 - b)
      [] op = "Dot" -> Fe(a * b + m)
      [] op = "CumProd" -> Fe(b * m)
      [] op = "Sum" -> Fe(b + m)
      [] OTHER -> b

Accumulating == {"Dot", "CumProd", "Sum"}

\* BaseOp::query_offset_rng: (rotation offset, number of rows) of the output region
QueryOffsetRng(op) == IF op \in Accumulating THEN <<0 - 1, 2>> ELSE <<0, 1>>

\* BaseOp::constraint_idx: the slot of the output region the gate constrains
ConstraintIdx(op) == IF op \in Accumulating THEN 1 ELSE 0

\* the cells of one row as a gate of column col sees them: the cells of the two
\* inputs at rotation 0 and of the output at the rotations of o in column col,
\* and one value in every other cell
RowCells(col, a, b, o, other) ==
    [col |-> col, in0 |-> [r \in {0} |-> a], in1 |-> [r \in {0} |-> b], out |-> o, other |-> other]

CellValue(cells, which, ref) ==
    IF ref.col = cells.col /\ ref.rot \in DOMAIN cells[which]
    THEN cells[which][ref.rot] ELSE cells.other

\* an index offset that leaves out the rows per column
IdxOffsetColumn(col_idx, out) == col_idx

IdxOffset(col_idx, out) == col_idx * col_size(out)

\* the two input expressions of a gate: zero unless i >= 2 - num_inputs
GateQis(op, col_idx, ins, out, cells) ==
    [i \in 0..1 |->
        IF i >= 2 - NumInputs(op)
        THEN CellValue(cells, IF i = 0 THEN "in0" ELSE "in1",
                       QueryRng(ins[i + 1], 0, IdxOffset(col_idx, out), 1)[1])
        ELSE 0]

\* a boolean constraint q * (q + 1)
BooleanConstraintPlus(q) == Fe(q * (q + 1))

BooleanConstraint(q) == Fe(q * (q - 1))

\* the constraint polynomial of the gate of (op, col_idx), evaluated on a row
GateConstraint(op, col_idx, ins, out, cells) ==
    LET qis == GateQis(op, col_idx, ins, out, cells)
    IN CASE op = "IsBoolean" -> BooleanConstraint(qis[1])
         [] op = "IsZero" -> qis[1]
         [] OTHER ->
            LET rng == QueryOffsetRng(op)
                refs == QueryRng(out, rng[1], IdxOffset(col_idx, out), rng[2])
                expected_output == [k \in 0..(rng[2] - 1) |->
                                       CellValue(cells, "out", refs[k + 1])]
                res == BaseOpF(op, qis[0], qis[1], expected_output[0])
            IN Fe(expected_output[ConstraintIdx(op)] - res)

\* Constraints::with_selector: the polynomial the row must make zero
GatePoly(gate, active, ins, out, cells) ==
    Fe(active * GateConstraint(gate.name, gate.col, ins, out, cells))

\* the check of gate i of the constraint system on one row
CheckGate(i, active, a, b, o, other) ==
    /\ cs.gates[i].kind = "base"
    /\ LET cells == RowCells(cs.gates[i].col, a, b, o, other)
           poly == GatePoly(cs.gates[i], active, inputs, output, cells)
       IN last' = [NoCall EXCEPT !.op = "gate",
                                 !.args = <<cs.gates[i], active, cells>>,
                                 !.result = [kind |-> IF poly = 0 THEN "satisfied"
                                                      ELSE "violated",
                                             val |-> poly]]
    /\ UNCHANGED <<phase, inputs, output, lookup_input, lookup_output, selectors,
                   lookup_selectors, tables, check_mode, cs, col_writes, reg_order>>

----------------------------------------------------------------------------
(* Tables (circuit/table.rs) *)

RECURSIVE Pow2(_)
Pow2(n) == IF n = 0 THEN 1 ELSE 2 * Pow2(n - 1)

\* the number of columns a table of 2^bits rows takes in columns of 2^logrows rows
NumColsRequired(bits, logrows) ==
    IF Pow2(bits) <= Pow2(logrows) THEN 1
    ELSE (Pow2(bits) + Pow2(logrows) - 1) \div Pow2(logrows)

\* the fresh table columns first, first + 1, ... (count of them)
FreshCols(first, count) == [i \in 1..count |-> first + i - 1]

\* Table::configure(cs, bits, logrows, nl, preexisting_inputs): the domain is the
\* shared one when given, else freshly allocated; the codomain is always fresh,
\* one column per domain column.  next is the first free table column.
TableConfigure(next, bits, logrows, nl, preexisting) ==
    LET ins == IF preexisting.some THEN preexisting.val
               ELSE FreshCols(next, NumColsRequired(bits, logrows))
        used == IF preexisting.some THEN next ELSE next + Len(ins)
    IN [nonlinearity |-> nl, table_inputs |-> ins,
        table_outputs |-> FreshCols(used, Len(ins)),
        is_assigned |-> FALSE, bits |-> bits]

\* the table columns allocated once t is configured from first free column next
TableColsAfter(next, t, preexisting) ==
    next + Len(t.table_outputs) + (IF preexisting.some THEN 0 ELSE Len(t.table_inputs))

Range(s) == {s[i] : i \in DOMAIN s}

\* Table::layout(layouter, populate_domain): writes the codomain cells, and the
\* domain cells when populate_domain; then the table is assigned
TableLayoutWrites(t, populate_domain, writes) ==
    [c \in DOMAIN writes |->
        IF c \in Range(t.table_outputs) \/ (populate_domain /\ c \in Range(t.table_inputs))
        THEN writes[c] + 1 ELSE writes[c]]

TableLayout(t, populate_domain) == [t EXCEPT !.is_assigned = TRUE]

----------------------------------------------------------------------------
(* Lookup configuration: BaseConfig::configure_lookup *)

Ok == [kind |-> "Ok", val |-> 0]

Err == [kind |-> "Err", val |-> 0]

\* a broken contains_key that never finds the identity
RegisteredNever(tabs, nl) == FALSE

\* a lookup of the identity that only compares it with the first key
RegisteredFirstOnly(tabs, nl) == DOMAIN tabs # {} /\ nl = KeyAt(tabs, 1)

\* a lookup of the identity that only compares it with the last key
RegisteredLastOnly(tabs, nl) == DOMAIN tabs # {} /\ nl = KeyAt(tabs, Cardinality(DOMAIN tabs))

\* self.tables.contains_key(nl)
Registered(tabs, nl) == nl \in DOMAIN tabs

\* self.tables.values().next(): the table of the least key, if any
FirstTable(tabs) == IF DOMAIN tabs = {} THEN None ELSE Some(tabs[KeyAt(tabs, 1)])

\* a configure_lookup that never shares a domain
PreexistingInputsNone(tabs) == None

\* a configure_lookup that hands over the first table's codomain as the shared domain
PreexistingInputsOutputs(tabs) ==
    IF DOMAIN tabs = {} THEN None ELSE Some(tabs[KeyAt(tabs, 1)].table_outputs)

\* the shared domain configure_lookup hands to Table::configure
PreexistingInputs(tabs) ==
    IF FirstTable(tabs).some THEN Some(FirstTable(tabs).val.table_inputs) ELSE None

\* the component flags (complex selectors) of column x, n components,
\* first being the first free selector index when the column loop starts
QLookups(first, x, n) == [i \in 1..n |-> Selector(first + x * (n + 1) + i - 1, FALSE)]

\* the aggregate selector of column x, allocated after the column's component flags
AggregateSelector(first, x, n) == Selector(first + x * (n + 1) + n, TRUE)

\* the lookup argument of column x: per component table, the pair of the input
\* and output cells of column x (or the default pair) looked up in that component
LookupArgument(nl, x, input, out, table, qlookups) ==
    [nl |-> nl, col |-> x, input |-> input, output |-> out, qlookups |-> qlookups,
     table_inputs |-> table.table_inputs, table_outputs |-> table.table_outputs]

\* the auxiliary gate of column x: the product of the component flags
AggregateGate(x, qlookups) ==
    [kind |-> "aggregate", name |-> "", col |-> x, selectors |-> qlookups]

\* the local selectors map of one registering call
NewLookupSelectors(nl, W, first, n) ==
    [k \in {<<nl, x>> : x \in 0..(W - 1)} |-> AggregateSelector(first, k[2], n)]

\* a binding that overwrites a bound handle
BindHandleAlways(current, handle) == handle

\* binding of a lookup handle: only while it is still Empty
BindHandle(current, handle) == IF current = Empty THEN handle ELSE current

\* advices[x] of the output handle, for a column x of the input handle, is out
\* of bounds
ColumnMissing(input, out) == \E x \in 0..(num_cols(input) - 1) : x >= num_cols(out)

ConfigureLookup(input, out, bits, logrows, nl) ==
    /\ phase = "configured"
    /\ last' = [NoCall EXCEPT !.op = "configure_lookup",
                              !.args = <<input, out, bits, logrows, nl>>,
                              !.result = IF ~Registered(tables, nl) /\ ColumnMissing(input, out)
                                         THEN [kind |-> "panic", val |-> 0] ELSE Ok]
    /\ IF Registered(tables, nl)
       THEN UNCHANGED <<phase, inputs, output, lookup_input, lookup_output, selectors,
                        lookup_selectors, tables, check_mode, cs, col_writes, reg_order>>
       ELSE IF ColumnMissing(input, out)
       THEN /\ phase' = "panicked"
            /\ UNCHANGED <<inputs, output, lookup_input, lookup_output, selectors,
                           lookup_selectors, tables, check_mode, cs, col_writes, reg_order>>
       ELSE LET pre == PreexistingInputs(tables)
                table == TableConfigure(cs.num_table_cols, bits, logrows, nl, pre)
                ncols == TableColsAfter(cs.num_table_cols, table, pre)
                n == Len(table.table_inputs)
                W == num_cols(input)
                first == cs.num_selectors
            IN /\ tables' = Insert(tables, nl, table)
               /\ cs' = [cs EXCEPT
                    !.num_table_cols = ncols,
                    !.num_selectors = @ + W * (n + 1),
                    !.lookups = @ \o [x \in 1..W |->
                        LookupArgument(nl, x - 1, input, out, table, QLookups(first, x - 1, n))],
                    !.gates = @ \o [x \in 1..W |->
                        AggregateGate(x - 1, QLookups(first, x - 1, n))]]
               /\ lookup_selectors' = Extend(lookup_selectors, NewLookupSelectors(nl, W, first, n))
               /\ lookup_input' = BindHandle(lookup_input, input)
               /\ lookup_output' = BindHandle(lookup_output, out)
               /\ col_writes' = [c \in 0..(ncols - 1) |->
                                    IF c \in DOMAIN col_writes THEN col_writes[c] ELSE 0]
               /\ reg_order' = Append(reg_order, nl)
               /\ UNCHANGED <<phase, inputs, output, selectors, check_mode>>

----------------------------------------------------------------------------
(* Evaluation of the lookup arguments and their auxiliary gates on one row *)

\* LookupOp::default_pair: the fixed pair of an identity
DefaultPair(nl) == <<0, nl - 1>>

RECURSIVE Product(_)
Product(s) == IF s = <<>> THEN 1 ELSE Fe(Head(s) * Product(Tail(s)))

\* the constraint of the auxiliary gate on a row: start = 1, then start * selector
\* for every component flag
AggregateConstraint(flags) == Product(flags)

\* the check of auxiliary gate g on a row where the component flags are flags
CheckAggregateGate(g, flags) ==
    /\ cs.gates[g].kind = "aggregate"
    /\ DOMAIN flags = DOMAIN cs.gates[g].selectors
    /\ LET poly == AggregateConstraint(flags)
       IN last' = [NoCall EXCEPT !.op = "aggregate_gate",
                                 !.args = <<cs.gates[g], flags>>,
                                 !.result = [kind |-> IF poly = 0 THEN "satisfied"
                                                      ELSE "violated",
                                             val |-> poly]]
    /\ UNCHANGED <<phase, inputs, output, lookup_input, lookup_output, selectors,
                   lookup_selectors, tables, check_mode, cs, col_writes, reg_order>>

\* a pair that takes the default where the flag is set and the cells where it is not
LookupPairSwapped(q, in, out, default) ==
    <<Fe((1 - q) * in + q * default[1]), Fe((1 - q) * out + q * default[2])>>

\* the two expressions of one component: qlookup * cell + not_qlookup * default
LookupPair(q, in, out, default) ==
    <<Fe(q * in + (1 - q) * default[1]), Fe(q * out + (1 - q) * default[2])>>

\* the expressions of the lookup argument, component after component
LookupTuple(flags, in, out, default) ==
    [i \in DOMAIN flags |-> LookupPair(flags[i], in, out, default)]

\* the check of lookup argument l on a row: the flags of its components, the
\* cells in and out of its column in the input and output handle, and the rows
\* of its table, each row holding one (input, output) pair per component
CheckLookup(l, flags, in, out, rows) ==
    /\ DOMAIN flags = DOMAIN cs.lookups[l].qlookups
    /\ \A row \in rows : DOMAIN row = DOMAIN flags
    /\ LET tuple == LookupTuple(flags, in, out, DefaultPair(cs.lookups[l].nl))
       IN last' = [NoCall EXCEPT !.op = "lookup",
                                 !.args = <<cs.lookups[l], flags, in, out, rows>>,
                                 !.result = [kind |-> IF tuple \in rows THEN "satisfied"
                                                      ELSE "violated",
                                             val |-> tuple]]
    /\ UNCHANGED <<phase, inputs, output, lookup_input, lookup_output, selectors,
                   lookup_selectors, tables, check_mode, cs, col_writes, reg_order>>

----------------------------------------------------------------------------
(* Table layout: BaseConfig::layout_tables *)

\* an inverted test of the assigned flag
NeedsLayoutInverted(t) == t.is_assigned

\* a layout_tables without the test of the assigned flag
NeedsLayoutAlways(t) == TRUE

\* the test layout_tables makes before it lays a table out
NeedsLayout(t) == ~t.is_assigned

\* the flag layout_tables passes to Table::layout for the table at index i
\* of the registry's iteration
LayoutFlag(i) == i # 0

\* the loop of layout_tables from index i on; fail is the identity whose
\* Table::layout returns an error when invoked (0: none does)
RECURSIVE LayoutFrom(_, _, _, _, _)

\* a loop that drops the error of Table::layout and goes on with the next table
FailedLayoutIgnored(i, tabs, writes, laid, fail) ==
    LayoutFrom(i + 1, tabs, writes, laid, fail)

\* the ? on Table::layout at index i: the error is returned at once, the
\* tables from index i on are left as they are
FailedLayout(i, tabs, writes, laid, fail) ==
    [tables |-> tabs, writes |-> writes, laid |-> laid, result |-> Err]

LayoutFrom(i, tabs, writes, laid, fail) ==
    IF i >= Cardinality(DOMAIN tabs)
    THEN [tables |-> tabs, writes |-> writes, laid |-> laid, result |-> Ok]
    ELSE LET k == KeyAt(tabs, i + 1)
             t == tabs[k]
         IN IF NeedsLayout(t)
            THEN IF k = fail
                 THEN FailedLayout(i, tabs, writes,
                                   Append(laid, [nl |-> k, flag |-> LayoutFlag(i),
                                                 ok |-> FALSE]),
                                   fail)
                 ELSE LayoutFrom(i + 1,
                                 [tabs EXCEPT ![k] = TableLayout(t, LayoutFlag(i))],
                                 TableLayoutWrites(t, LayoutFlag(i), writes),
                                 Append(laid, [nl |-> k, flag |-> LayoutFlag(i), ok |-> TRUE]),
                                 fail)
            ELSE LayoutFrom(i + 1, tabs, writes, laid, fail)

LayoutTables(fail) ==
    /\ phase = "configured"
    /\ fail = 0 \/ (fail \in DOMAIN tables /\ ~tables[fail].is_assigned)
    /\ LET r == LayoutFrom(0, tables, col_writes, <<>>, fail)
       IN /\ tables' = r.tables
          /\ col_writes' = r.writes
          /\ last' = [NoCall EXCEPT !.op = "layout_tables", !.args = <<fail>>,
                                    !.result = r.result, !.laid = r.laid]
    /\ UNCHANGED <<phase, inputs, output, lookup_input, lookup_output, selectors,
                   lookup_selectors, check_mode, cs, reg_order>>

----------------------------------------------------------------------------
(* Operation layout: BaseConfig::layout *)

\* a witness value that is not known (keygen / placeholder values)
Unknown == 0 - 1

Vals == 0..MaxVal

ValTensors == Vals \cup {Unknown}

any_unknowns(v) == v = Unknown

\* the operations laid out: their arity and their pure-value semantics
LayoutOps == {"Add", "Identity"}

Arity(op) == IF op = "Add" THEN 2 ELSE 1

OpF(op, values) == IF op = "Add" THEN values[1] + values[2] ELSE values[1]

\* what an operation's own layout can return: an error, no output, or a claimed output
OpLayoutResults ==
    {[kind |-> "Err", val |-> 0], [kind |-> "None", val |-> 0]}
        \cup {[kind |-> "Some", val |-> v] : v \in (0..(2 * MaxVal)) \cup {Unknown}}

\* Op::safe_mode_check: the pure-value recomputation must equal the claimed output
SafeModeCheck(op, claimed_output, values) ==
    IF claimed_output = OpF(op, values) THEN Ok ELSE [kind |-> "CheckErr", val |-> 0]

\* is_assigned of layout: neither the claimed output nor any value has unknowns
AllKnown(claimed_output, values) ==
    ~any_unknowns(claimed_output) /\ \A i \in DOMAIN values : ~any_unknowns(values[i])

\* a layout that ignores the check mode
RunsCheckAnyMode(mode, dummy, res, values) ==
    /\ res.kind # "Err"
    /\ ~dummy
    /\ res.kind = "Some"
    /\ AllKnown(res.val, values)

\* a layout that ignores whether the region is a dummy
RunsCheckAnyRegion(mode, dummy, res, values) ==
    /\ res.kind # "Err"
    /\ mode = "SAFE"
    /\ res.kind = "Some"
    /\ AllKnown(res.val, values)

\* whether layout reaches the call of safe_mode_check
RunsCheck(mode, dummy, res, values) ==
    /\ res.kind # "Err"
    /\ mode = "SAFE" /\ ~dummy
    /\ res.kind = "Some"
    /\ AllKnown(res.val, values)

\* what layout returns
LayoutResult(mode, dummy, op, values, res) ==
    IF res.kind = "Err" THEN res
    ELSE IF RunsCheck(mode, dummy, res, values)
              /\ SafeModeCheck(op, res.val, values).kind # "Ok"
         THEN SafeModeCheck(op, res.val, values)
         ELSE res

Layout(op, values, dummy, res) ==
    /\ phase = "configured"
    /\ last' = [NoCall EXCEPT !.op = "layout", !.args = <<op, values, dummy, res>>,
                              !.result = LayoutResult(check_mode, dummy, op, values, res),
                              !.checked = RunsCheck(check_mode, dummy, res, values)]
    /\ UNCHANGED <<phase, inputs, output, lookup_input, lookup_output, selectors,
                   lookup_selectors, tables, check_mode, cs, col_writes, reg_order>>

----------------------------------------------------------------------------
(* The state machine *)

\* BaseConfig::default(), in an empty constraint system
Init ==
    /\ phase = "new"
    /\ inputs = <<Empty, Empty>>
    /\ output = Empty
    /\ lookup_input = Empty
    /\ lookup_output = Empty
    /\ selectors = EmptyMap
    /\ lookup_selectors = EmptyMap
    /\ tables = EmptyMap
    /\ check_mode = "SAFE"
    /\ cs = EmptyCs
    /\ col_writes = EmptyMap
    /\ reg_order = <<>>
    /\ last = NoCall

Next ==
    \/ \E in0 \in Handles, in1 \in Handles, out \in Handles, mode \in CheckModes :
          Configure(in0, in1, out, mode)
    \/ \E input \in Handles, out \in Handles, bits \in 1..MaxBits,
          logrows \in 1..MaxLogRows, nl \in LookupOps :
          ConfigureLookup(input, out, bits, logrows, nl)
    \/ \E fail \in {0} \cup LookupOps : LayoutTables(fail)

\* configuration of the gates and the lookups, and the layout of the tables
Spec == Init /\ [][Next]_vars

\* the aggregate right after configure, for either check mode
InitLayout ==
    /\ phase = "configured"
    /\ inputs = <<Advice(1), Advice(1)>>
    /\ output = Advice(1)
    /\ lookup_input = Empty
    /\ lookup_output = Empty
    /\ selectors = InsertSelectors(ConfigureKeys(1), EmptyMap, 0)
    /\ lookup_selectors = EmptyMap
    /\ tables = EmptyMap
    /\ check_mode \in CheckModes
    /\ cs = [EmptyCs EXCEPT !.num_selectors = Len(ConfigureKeys(1)),
                            !.gates = BaseGates(selectors)]
    /\ col_writes = EmptyMap
    /\ reg_order = <<>>
    /\ last = [NoCall EXCEPT !.op = "configure",
                             !.args = <<Advice(1), Advice(1), Advice(1), check_mode>>,
                             !.result.kind = "Ok"]

NextLayout ==
    \E op \in LayoutOps, dummy \in BOOLEAN, res \in OpLayoutResults :
        \E values \in [1..Arity(op) -> ValTensors] : Layout(op, values, dummy, res)

\* the layout of operation instances in a configured aggregate
SpecLayout == InitLayout /\ [][NextLayout]_vars

\* the operation layouts of a run: an operation of one input, in a dummy or a
\* real pass, whose own layout fails or returns no output
RunLayoutResults == {[kind |-> "Err", val |-> 0], [kind |-> "None", val |-> 0]}

NextRun ==
    \/ \E in0 \in Handles, in1 \in Handles, out \in Handles, mode \in CheckModes :
          Configure(in0, in1, out, mode)
    \/ \E input \in Handles, out \in Handles, bits \in 1..MaxBits,
          logrows \in 1..MaxLogRows, nl \in LookupOps :
          ConfigureLookup(input, out, bits, logrows, nl)
    \/ \E fail \in {0} \cup LookupOps : LayoutTables(fail)
    \/ \E dummy \in BOOLEAN, res \in RunLayoutResults :
          Layout("Identity", <<Unknown>>, dummy, res)

\* whole runs: configuration, table layout and operation layout in any order
SpecRun == Init /\ [][NextRun]_vars

----------------------------------------------------------------------------
(* The single-function lookup circuit (src/src/nl.rs) *)

\* widest signed domain alloc_table is run on by itself: INBITS is 1..MaxInBits
MaxInBits == 4
\* longest witness of the lookup circuit: LEN is 1..MaxLen
MaxLen == 2
\* INBITS of the circuit of test_relunl
TestInBits == 8

\* fieldutils::i32tofelt: the field element of a signed integer
i32tofelt(x) == Fe(x)

\* a nonlinearity that is the identity on every input
ReLuIdentity(x) == i32tofelt(x)

\* ReLu::nonlinearity
ReLu(x) == IF x < 0 THEN 0 ELSE i32tofelt(x)

\* a lower end one above the smallest value of the signed range
SmallestPlusOne(inbits) == 1 - Pow2(inbits - 1)

\* the ends of the loop of alloc_table: smallest..largest
Smallest(inbits) == 0 - Pow2(inbits - 1)
Largest(inbits) == Pow2(inbits - 1)

\* the loop of alloc_table: pass n, for int_input = smallest + n - 1, assigns
\* the two cells of row row_offset = n - 1; no pass when smallest >= largest
AllocRows(smallest, largest) ==
    [n \in 1..(largest - smallest) |->
        LET int_input == smallest + n - 1
            row_offset == n - 1
        IN [row_offset |-> row_offset,
            table_input |-> i32tofelt(int_input),
            table_output |-> ReLu(int_input)]]

\* the cells alloc_table assigns for an INBITS-bit domain
AllocCells(inbits) == AllocRows(Smallest(inbits), Largest(inbits))

\* the (input, output) pairs of a table
TablePairs(rows) == {<<rows[i].table_input, rows[i].table_output>> : i \in DOMAIN rows}

AllocTable(inbits) ==
    /\ last' = [NoCall EXCEPT !.op = "alloc_table", !.args = <<inbits>>,
                              !.result = [kind |-> "Ok", val |-> AllocCells(inbits)]]
    /\ UNCHANGED <<phase, inputs, output, lookup_input, lookup_output, selectors,
                   lookup_selectors, tables, check_mode, cs, col_writes, reg_order>>

\* the table of the circuit of test_relunl
TestTable == TablePairs(AllocCells(TestInBits))

\* the pair an advice row holds where synthesize assigned nothing
UnassignedPair == <<0, 0>>

\* composable_configure: lookup i requires (input[i], output[i]) of every row
\* to be a pair of the table
LookupsHold(assigned, table) ==
    /\ \A i \in DOMAIN assigned.input : <<assigned.input[i], assigned.output[i]>> \in table
    /\ UnassignedPair \in table

\* synthesize of NLCircuit<F, LEN, 8, 8, ReLu> on a witness, and the verdict
\* of the prover on the circuit
Synthesize(assigned) ==
    /\ last' = [NoCall EXCEPT !.op = "synthesize", !.args = <<assigned>>,
                              !.result = [kind |-> IF LookupsHold(assigned, TestTable)
                                                   THEN "satisfied" ELSE "violated",
                                          val |-> 0]]
    /\ UNCHANGED <<phase, inputs, output, lookup_input, lookup_output, selectors,
                   lookup_selectors, tables, check_mode, cs, col_writes, reg_order>>

\* witness values: around the ends of the 8-bit signed range and around zero
WitnessVals == {i32tofelt(x) : x \in {0 - 129, 0 - 128, 0 - 1, 0, 1, 127, 128}}

\* the witness of test_relunl
TestWitness == [input |-> <<1, 2, 3, 4>>, output |-> <<1, 2, 3, 4>>]

Witnesses ==
    {TestWitness} \cup
    UNION {[input : [1..len -> WitnessVals], output : [1..len -> WitnessVals]] :
              len \in 1..MaxLen}

NextNl ==
    \/ /\ last.op = "none"
       /\ \E inbits \in 1..MaxInBits : AllocTable(inbits)
    \/ /\ last.op = "none"
       /\ \E assigned \in Witnesses : Synthesize(assigned)

\* one run of alloc_table on a domain, or one run of the circuit on a witness
SpecNl == Init /\ [][NextNl]_vars

\* the rotations of an output region
OutRotations == {0 - 1, 0}

NextGates ==
    \/ \E h \in Handles, out \in Handles, mode \in CheckModes : Configure(h, h, out, mode)
    \/ /\ phase = "configured"
       /\ last.op = "configure"
       /\ \E i \in DOMAIN cs.gates, active \in {0, 1},
             a \in CellVals, b \in CellVals, o \in [OutRotations -> CellVals],
             other \in CellVals :
             CheckGate(i, active, a, b, o, other)

\* configure and then the check of one of the gates it registered on one row
\* of cell values
SpecGates == Init /\ [][NextGates]_vars

\* most component tables of one table
MaxComponents == NumColsRequired(MaxBits, 1)

\* the (input, output) pairs the rows of a component table are made of
RowPairs == {<<0, 1>>, <<1, 1>>}

\* table contents: one or two rows
TableContents ==
    UNION {{rows \in SUBSET [1..n -> RowPairs] : Cardinality(rows) \in {1, 2}} :
              n \in 1..MaxComponents}

FlagVectors == UNION {[1..n -> {0, 1}] : n \in 1..MaxComponents}

NextLookup ==
    \/ \E in0 \in Handles, in1 \in Handles, out \in Handles, mode \in CheckModes :
          Configure(in0, in1, out, mode)
    \/ \E input \in Handles, out \in Handles, bits \in 1..MaxBits,
          logrows \in 1..MaxLogRows, nl \in LookupOps :
          ConfigureLookup(input, out, bits, logrows, nl)
    \/ /\ last.op = "configure_lookup"
       /\ \E g \in DOMAIN cs.gates, flags \in FlagVectors : CheckAggregateGate(g, flags)
    \/ /\ last.op = "configure_lookup"
       /\ \E l \in DOMAIN cs.lookups, flags \in FlagVectors, in \in 0..MaxVal,
             out \in 0..MaxVal, rows \in TableContents :
             CheckLookup(l, flags, in, out, rows)

\* configuration, and the check of one lookup argument or auxiliary gate on a row
SpecLookup == Init /\ [][NextLookup]_vars

\* the operation layouts of a failing run: an operation of one known input,
\* whose own layout fails or returns a claimed output
FailLayoutResults == {Err} \cup {[kind |-> "Some", val |-> v] : v \in Vals}

NextFail ==
    \/ \E in0 \in Handles, in1 \in Handles, out \in Handles, mode \in CheckModes :
          Configure(in0, in1, out, mode)
    \/ \E input \in Handles, out \in Handles, bits \in 1..MaxBits,
          logrows \in 1..MaxLogRows, nl \in LookupOps :
          ConfigureLookup(input, out, bits, logrows, nl)
    \/ \E fail \in {0} \cup LookupOps : LayoutTables(fail)
    \/ \E v \in Vals, dummy \in BOOLEAN, res \in FailLayoutResults :
          Layout("Identity", <<v>>, dummy, res)

\* runs in which the layout of a table or of an operation can fail
SpecFail == Init /\ [][NextFail]_vars

----------------------------------------------------------------------------
(* Properties *)

\* the arguments of the last call, when it was configure_lookup
LastInput == last.args[1]
LastOutput == last.args[2]
LastBits == last.args[3]
LastNl == last.args[5]

\* how often the last layout_tables invoked the layout of the table of nl
LaidCount(laid, nl) == Cardinality({i \in DOMAIN laid : laid[i].nl = nl})

AllAssigned(tabs) == \A nl \in DOMAIN tabs : tabs[nl].is_assigned

\* C1: a configure_lookup call for an identity that already has a table returns
\* success and changes neither the table registry, nor the lookup-selector map,
\* nor anything in the constraint system (no selector, lookup argument, gate or
\* table column is allocated); so no identity is ever registered twice.
C1_ConfigureLookupIdempotent ==
    /\ [][(last'.op = "configure_lookup" /\ last'.args[5] \in DOMAIN tables) =>
            /\ last'.result = Ok
            /\ tables' = tables
            /\ lookup_selectors' = lookup_selectors
            /\ cs' = cs]_vars
    /\ [](/\ Len(reg_order) = Cardinality(DOMAIN tables)
          /\ \A i, j \in DOMAIN reg_order : reg_order[i] = reg_order[j] => i = j)

\* a repeated configure_lookup for a registered identity, with another bit width
\* than the one its table was configured with
C1_Witness ==
    /\ last.op = "configure_lookup"
    /\ LastNl \in DOMAIN tables
    /\ tables[LastNl].bits # LastBits
    /\ Len(reg_order) = 2

\* C2: the domain cells the registered tables share are written by exactly one
\* table layout: once a table is assigned, each of its domain columns has been
\* written exactly once (by the first layout of a table on that domain), and
\* never again by a later table's layout.
C2_DomainWrittenByOneLayout ==
    \A nl \in DOMAIN tables :
        tables[nl].is_assigned =>
            \A c \in Range(tables[nl].table_inputs) : col_writes[c] = 1

\* C3: a claimed output that differs from the recomputation on fully known
\* inputs, in a real pass: SAFE mode returns the safe_mode_check failure,
\* UNSAFE mode returns the claimed output and never runs the check.
C3_MismatchSafeUnsafe ==
    (/\ last.op = "layout"
     /\ last.args[4].kind = "Some"
     /\ ~last.args[3]
     /\ last.args[4].val # Unknown
     /\ \A i \in DOMAIN last.args[2] : last.args[2][i] # Unknown
     /\ last.args[4].val # OpF(last.args[1], last.args[2]))
    => /\ check_mode = "SAFE" => last.result.kind = "CheckErr"
       /\ check_mode = "UNSAFE" => (last.result = last.args[4] /\ ~last.checked)

\* Add(1, 1) laid out with claimed output 1 in SAFE mode: the check fails
C3_Witness ==
    /\ last.op = "layout"
    /\ check_mode = "SAFE"
    /\ last.args = <<"Add", <<1, 1>>, FALSE, [kind |-> "Some", val |-> 1]>>
    /\ last.result.kind = "CheckErr"

\* C4: layout runs safe_mode_check exactly when the mode is SAFE, the region is
\* not a dummy, the operation's layout returned a claimed output and neither it
\* nor any input has an unknown; a dummy pass never runs it; and when the check
\* is skipped or passes, layout returns what the operation's layout returned.
C4_CheckRunsIff ==
    last.op = "layout" =>
        /\ last.checked <=>
              (/\ check_mode = "SAFE"
               /\ ~last.args[3]
               /\ last.args[4].kind = "Some"
               /\ last.args[4].val # Unknown
               /\ \A i \in DOMAIN last.args[2] : last.args[2][i] # Unknown)
        /\ last.args[3] => ~last.checked
        /\ (~last.checked \/ last.args[4].val = OpF(last.args[1], last.args[2]))
              => last.result = last.args[4]

\* a dummy pass in SAFE mode with known values and a wrong claimed output:
\* the check is skipped and the claimed output returned
C4_Witness ==
    /\ last.op = "layout"
    /\ check_mode = "SAFE"
    /\ last.args = <<"Add", <<1, 1>>, TRUE, [kind |-> "Some", val |-> 1]>>
    /\ ~last.checked
    /\ last.result = [kind |-> "Some", val |-> 1]

\* C5: the lookup handles are Empty after configure and until a table is
\* registered; the call that registers the first table binds them to its own
\* input and output handles; once bound, no call changes them.
C5_LookupHandlesBoundOnce ==
    /\ []((phase = "configured" /\ reg_order = <<>>) =>
             (lookup_input = Empty /\ lookup_output = Empty))
    /\ [][/\ (last'.op = "configure" /\ last'.result.kind = "Ok") =>
                (lookup_input' = Empty /\ lookup_output' = Empty)
          /\ (last'.op = "configure_lookup" /\ reg_order = <<>> /\ reg_order' # <<>>) =>
                (lookup_input' = last'.args[1] /\ lookup_output' = last'.args[2])
          /\ lookup_input # Empty => lookup_input' = lookup_input
          /\ lookup_output # Empty => lookup_output' = lookup_output]_vars

\* a second identity has been registered with handles other than the bound ones
C5_Witness ==
    /\ last.op = "configure_lookup"
    /\ Len(reg_order) = 2
    /\ LastNl = reg_order[2]
    /\ LastInput # lookup_input
    /\ LastOutput # lookup_output

\* the ten primitives
Primitives ==
    {"Add", "Sub", "Dot", "CumProd", "Sum", "Neg", "Mult", "IsZero", "Identity", "IsBoolean"}

\* the gates configure registered
PrimitiveGates == {i \in DOMAIN cs.gates : cs.gates[i].kind = "base"}

\* C6: with W the common width, configure allocates 10*W selectors and
\* registers 10*W gates, one selector and one gate for each pair of a primitive
\* and a column index in 0..W-1, distinct pairs having distinct selectors.
C6_TenSelectorsAndGatesPerColumn ==
    phase = "configured" =>
        LET W == num_cols(output)
            Pairs == Primitives \X (0..(W - 1))
        IN /\ DOMAIN selectors = Pairs
           /\ Cardinality(DOMAIN selectors) = 10 * W
           /\ \A p, q \in Pairs : selectors[p] = selectors[q] => p = q
           /\ Cardinality({selectors[p] : p \in Pairs}) = 10 * W
           /\ Cardinality(PrimitiveGates) = 10 * W
           /\ \A p \in Pairs :
                 Cardinality({i \in PrimitiveGates :
                                 cs.gates[i].name = p[1] /\ cs.gates[i].col = p[2]}) = 1
           /\ \A i \in PrimitiveGates :
                 cs.gates[i].selectors = <<selectors[<<cs.gates[i].name, cs.gates[i].col>>]>>
           /\ last.op = "configure" => (cs.num_selectors = 10 * W /\ Len(cs.gates) = 10 * W)

\* configure has just returned for handles of two columns
C6_Witness ==
    /\ phase = "configured"
    /\ last.op = "configure"
    /\ num_cols(output) = 2
    /\ Cardinality(DOMAIN selectors) = 20

\* C7: every table registered after the first has the domain columns of the
\* first registered table.
C7_AllTablesShareFirstDomain ==
    \A k \in DOMAIN reg_order :
        tables[reg_order[k]].table_inputs = tables[reg_order[1]].table_inputs

\* two identities registered, the later one first in key order and with
\* another bit width
C7_Witness ==
    /\ Len(reg_order) = 2
    /\ reg_order[2] < reg_order[1]
    /\ tables[reg_order[1]].bits # tables[reg_order[2]].bits

\* the position at which nl was registered
RegIndex(nl) == CHOOSE k \in DOMAIN reg_order : reg_order[k] = nl

\* C8 as stated: a table registered with a bit width that no earlier registered
\* table has shares no domain column with an earlier registered table.
C8_FreshDomainWhenIncompatible ==
    \A nl \in DOMAIN tables :
        (\A k \in 1..(RegIndex(nl) - 1) : tables[reg_order[k]].bits # tables[nl].bits)
        => \A k \in 1..(RegIndex(nl) - 1) :
              Range(tables[reg_order[k]].table_inputs) \cap Range(tables[nl].table_inputs) = {}

\* C8 as amended: a registration into an empty registry allocates a fresh
\* domain; a registration into a non-empty registry reuses the domain of the
\* table first in key order, whatever the bit width and row count of the call,
\* and allocates only the codomain columns.
C8_FreshDomainOnlyWhenRegistryEmpty ==
    [][(last'.op = "configure_lookup" /\ last'.result = Ok
        /\ last'.args[5] \notin DOMAIN tables) =>
          LET t == tables'[last'.args[5]]
          IN IF DOMAIN tables = {}
             THEN /\ \A c \in Range(t.table_inputs) : c >= cs.num_table_cols
                  /\ cs'.num_table_cols =
                        cs.num_table_cols + Len(t.table_inputs) + Len(t.table_outputs)
             ELSE /\ t.table_inputs = tables[KeyAt(tables, 1)].table_inputs
                  /\ cs'.num_table_cols = cs.num_table_cols + Len(t.table_outputs)]_vars

\* a second identity registered with a bit width the first table does not have
C8_Witness ==
    /\ last.op = "configure_lookup"
    /\ Len(reg_order) = 2
    /\ LastNl = reg_order[2]
    /\ tables[reg_order[2]].bits = LastBits
    /\ tables[reg_order[1]].bits # LastBits

\* C9: when layout_tables returns success every table is assigned; the call
\* invoked the layout of each table that was unassigned on entry exactly once,
\* and of no table that was assigned on entry.
C9_LayoutTablesAssignsAll ==
    [][(last'.op = "layout_tables" /\ last'.result = Ok) =>
          /\ DOMAIN tables' = DOMAIN tables
          /\ AllAssigned(tables')
          /\ \A nl \in DOMAIN tables :
                LaidCount(last'.laid, nl) = IF tables[nl].is_assigned THEN 0 ELSE 1
          /\ \A i \in DOMAIN last'.laid : last'.laid[i].ok]_vars

\* a successful layout_tables that found one table assigned and one not
C9_Witness ==
    /\ last.op = "layout_tables"
    /\ last.result = Ok
    /\ Cardinality(DOMAIN tables) = 2
    /\ Len(last.laid) = 1
    /\ AllAssigned(tables)

\* C10: a layout_tables call made when every table is assigned invokes no table
\* layout, writes no table cell and leaves the aggregate unchanged.
C10_LayoutTablesIdempotent ==
    [][(last'.op = "layout_tables" /\ AllAssigned(tables)) =>
          /\ last'.laid = <<>>
          /\ last'.result = Ok
          /\ col_writes' = col_writes
          /\ aggregate' = aggregate]_vars

\* layout_tables has run a second time over two assigned tables
C10_Witness ==
    /\ last.op = "layout_tables"
    /\ last.laid = <<>>
    /\ Cardinality(DOMAIN tables) = 2
    /\ AllAssigned(tables)
    /\ \E c \in DOMAIN col_writes : col_writes[c] > 0


\* C11: once configure has returned, no call changes the arithmetic selector
\* map, the input handles, the output handle or the check mode; layout_tables
\* changes nothing of the aggregate but the assigned flags of the tables; and
\* no call removes a table or turns an assigned flag from true back to false,
\* so each flag changes at most once.
C11_FrameAfterConfigure ==
    [][/\ phase = "configured" =>
             /\ selectors' = selectors
             /\ inputs' = inputs
             /\ output' = output
             /\ check_mode' = check_mode
       /\ last'.op = "layout_tables" =>
             /\ lookup_input' = lookup_input
             /\ lookup_output' = lookup_output
             /\ lookup_selectors' = lookup_selectors
             /\ DOMAIN tables' = DOMAIN tables
             /\ \A nl \in DOMAIN tables :
                   [tables'[nl] EXCEPT !.is_assigned = tables[nl].is_assigned] = tables[nl]
       /\ \A nl \in DOMAIN tables :
             /\ nl \in DOMAIN tables'
             /\ tables[nl].is_assigned => tables'[nl].is_assigned]_vars

\* configure_lookup has been called again for an identity whose table is
\* assigned, while another registered table is still unassigned
C11_Witness ==
    /\ last.op = "configure_lookup"
    /\ Len(reg_order) = 2
    /\ LastNl = reg_order[2]
    /\ tables[reg_order[2]].is_assigned
    /\ ~tables[reg_order[1]].is_assigned


C13_ConfigurePanicsOnWidthMismatch ==
    /\ (last.op = "configure"
        /\ ~(last.args[1].cols = last.args[2].cols /\ last.args[1].cols = last.args[3].cols))
       => /\ phase = "panicked"
          /\ last.result.kind = "panic"
    /\ (phase = "panicked" /\ last.op = "configure") =>
          /\ cs = EmptyCs
          /\ selectors = EmptyMap
          /\ lookup_selectors = EmptyMap
          /\ tables = EmptyMap
          /\ inputs = <<Empty, Empty>>
          /\ output = Empty
    /\ phase = "configured" =>
          (inputs[1].cols = inputs[2].cols /\ inputs[1].cols = output.cols)

\* configure was called with equal input widths and another output width
C13_Witness ==
    /\ phase = "panicked"
    /\ last.args[1].cols = last.args[2].cols
    /\ last.args[3].cols # last.args[1].cols


\* the last checked gate, its selector's value and the cells of its row
LastGate == last.args[1]
LastActive == last.args[2]
LastCells == last.args[3]
Satisfied == last.result.kind = "satisfied"

\* C14: with its selector active the IsBoolean gate is satisfied exactly when
\* the second input's cell q has q*(q-1) = 0, that is q is 0 or 1, and the
\* IsZero gate exactly when that cell is 0, whatever the first input and the
\* output region hold; with the selector inactive both are satisfied.
C14_BooleanAndZeroGates ==
    (last.op = "gate" /\ LastGate.name \in {"IsBoolean", "IsZero"}) =>
        LET q == LastCells.in1[0]
        IN /\ LastActive = 0 => Satisfied
           /\ (LastActive = 1 /\ LastGate.name = "IsBoolean") =>
                 /\ Satisfied <=> (q * (q - 1)) % FieldModulus = 0
                 /\ Satisfied <=> q \in {0, 1}
           /\ (LastActive = 1 /\ LastGate.name = "IsZero") => (Satisfied <=> q = 0)

\* the IsBoolean gate of column 1, active on a cell of value 2, with other
\* values in the first input and the output region
C14_Witness ==
    /\ last.op = "gate"
    /\ LastGate.name = "IsBoolean"
    /\ LastGate.col = 1
    /\ LastActive = 1
    /\ LastCells.in1[0] = 2
    /\ LastCells.in0[0] = 1
    /\ LastCells.out[0] = 0
    /\ ~Satisfied

\* C19: the gate of every other primitive, with its selector active, is
\* satisfied exactly when output_region[constraint_idx] is the primitive's
\* formula on (first input cell, second input cell, output_region[0]), the
\* input cells read at rotation 0 of the gate's column and the first input
\* being the constant zero for a primitive of arity 1; with the selector
\* inactive it is satisfied.
C19_FormulaGates ==
    (last.op = "gate" /\ LastGate.name \notin {"IsBoolean", "IsZero"}) =>
        LET op == LastGate.name
            rng == QueryOffsetRng(op)
            region == [k \in 0..(rng[2] - 1) |-> LastCells.out[rng[1] + k]]
            first == IF NumInputs(op) = 1 THEN 0 ELSE LastCells.in0[0]
            second == LastCells.in1[0]
        IN /\ LastActive = 0 => Satisfied
           /\ LastActive = 1 =>
                 (Satisfied <=> region[ConstraintIdx(op)] = BaseOpF(op, first, second, region[0]))

\* the Dot gate of column 1 satisfied by 2 * 1 + 0 = 2, and the gate of a
\* primitive of arity 1 satisfied though the first input's cell is not zero
C19_Witness ==
    /\ last.op = "gate"
    /\ LastActive = 1
    /\ LastGate.col = 1
    /\ Satisfied
    /\ \/ /\ LastGate.name = "Dot"
          /\ LastCells.in0[0] = 2 /\ LastCells.in1[0] = 1
          /\ LastCells.out[0 - 1] = 0 /\ LastCells.out[0] = 2
       \/ /\ LastGate.name = "Identity"
          /\ LastCells.in0[0] = 2 /\ LastCells.in1[0] = 1 /\ LastCells.out[0] = 1


\* C15: the table alloc_table populates for an INBITS-bit signed domain has
\* exactly 2^INBITS rows at the consecutive offsets 0, 1, ...; row r holds the
\* input -2^(INBITS-1)+r and the nonlinearity of that input as output.
C15_AllocTableRows ==
    last.op = "alloc_table" =>
        LET INBITS == last.args[1]
            rows == last.result.val
        IN /\ Len(rows) = Pow2(INBITS)
           /\ \A i \in DOMAIN rows :
                 LET r == i - 1
                     x == r - Pow2(INBITS - 1)
                 IN /\ rows[i].row_offset = r
                    /\ rows[i].table_input = x % FieldModulus
                    /\ rows[i].table_output = (IF x < 0 THEN 0 ELSE x)
           /\ \A i, j \in DOMAIN rows : i < j => rows[i].table_input # rows[j].table_input

\* the table of a 3-bit domain: eight rows, -4 in the first and 3 in the last
C15_Witness ==
    /\ last.op = "alloc_table"
    /\ last.args[1] = 3
    /\ Len(last.result.val) = 8
    /\ last.result.val[1].table_input = FieldModulus - 4
    /\ last.result.val[8].table_output = 3

\* (input, output) is a row of the ReLU table of the 8-bit signed domain
InReLuTable8(input, out) ==
    \E x \in (0 - 128)..127 :
        /\ input = x % FieldModulus
        /\ out = (IF x < 0 THEN 0 ELSE x)

\* C16: the 8-bit ReLU lookup circuit is satisfied by a witness exactly when
\* every (input, output) pair of the witness is a row of the ReLU table; a
\* witness whose input and output are the same in-range non-negative value at
\* every position is satisfied.
C16_CircuitSatisfiedIffPairsInTable ==
    last.op = "synthesize" =>
        LET assigned == last.args[1]
        IN /\ Satisfied <=> \A i \in DOMAIN assigned.input :
                               InReLuTable8(assigned.input[i], assigned.output[i])
           /\ (\A i \in DOMAIN assigned.input :
                  assigned.input[i] = assigned.output[i] /\ assigned.input[i] \in 0..127)
              => Satisfied

\* the witness of the test is satisfied, and a witness with a negative input
\* and output 0 is satisfied
C16_Witness ==
    /\ last.op = "synthesize"
    /\ Satisfied
    /\ \/ last.args[1] = TestWitness
       \/ last.args[1].input[1] = FieldModulus - 1 /\ last.args[1].output[1] = 0


\* the arguments of the last check of an auxiliary gate or of a lookup argument
LastFlags == last.args[2]

\* C17: the constraint of the auxiliary gate of a column is the product of the
\* column's component flags, and the gate is satisfied on a row exactly when
\* every component flag is set on that row.
C17_AggregateGateAllFlagsSet ==
    last.op = "aggregate_gate" =>
        /\ last.result.val = Product(LastFlags)
        /\ Satisfied <=> \A i \in DOMAIN LastFlags : LastFlags[i] = 1

\* C18: the lookup argument of column x of a newly registered identity requires,
\* for every component i with flag q, the pair (q*in + (1-q)*default_x,
\* q*out + (1-q)*default_y) to be in component table i: the pair (in, out) when
\* q = 1, the default pair whatever the cells hold when q = 0.
C18_LookupPairPerComponent ==
    last.op = "lookup" =>
        LET l == last.args[1]
            in == last.args[3]
            out == last.args[4]
            rows == last.args[5]
            default == DefaultPair(l.nl)
            component(i) == {row[i] : row \in rows}
            pair(i) == IF LastFlags[i] = 1 THEN <<in, out>> ELSE default
        IN /\ DOMAIN LastFlags = DOMAIN l.table_inputs
           /\ Satisfied => \A i \in DOMAIN LastFlags : pair(i) \in component(i)
           /\ Satisfied <=> \E row \in rows : \A i \in DOMAIN LastFlags : row[i] = pair(i)

\* a lookup of two components of column 1, one flag set and one not, satisfied
C18_Witness ==
    /\ last.op = "lookup"
    /\ Satisfied
    /\ last.args[1].col = 1
    /\ Len(LastFlags) = 2
    /\ LastFlags[1] = 1 /\ LastFlags[2] = 0
    /\ last.args[3] = 1 /\ last.args[4] = 1


\* the column count of the input handle identity nl was registered with
RegisteredWidth(nl) ==
    LET l == CHOOSE l \in Range(cs.lookups) : l.nl = nl IN l.input.cols

\* C20: the lookup-selector map holds, for each identity of the registry, exactly
\* the entries of the columns 0..W-1, W the column count of the input handle of
\* the call that registered it, and no entry of another identity; registering
\* an identity adds its entries and leaves the entries of the others unchanged.
C20_LookupSelectorsPerRegisteredColumn ==
    /\ [](DOMAIN lookup_selectors =
             UNION {{<<nl, x>> : x \in 0..(RegisteredWidth(nl) - 1)} : nl \in DOMAIN tables})
    /\ [][(last'.op = "configure_lookup" /\ last'.result = Ok
           /\ last'.args[5] \notin DOMAIN tables) =>
             /\ DOMAIN lookup_selectors' =
                   DOMAIN lookup_selectors \cup
                   {<<last'.args[5], x>> : x \in 0..(last'.args[1].cols - 1)}
             /\ \A k \in DOMAIN lookup_selectors :
                   k[1] # last'.args[5] /\ lookup_selectors'[k] = lookup_selectors[k]
             /\ \A k, j \in DOMAIN lookup_selectors' :
                   lookup_selectors'[k] = lookup_selectors'[j] => k = j]_vars

\* a second identity registered with two columns after a first with one
C20_Witness ==
    /\ last.op = "configure_lookup"
    /\ Len(reg_order) = 2
    /\ LastNl = reg_order[2]
    /\ LastInput.cols = 2
    /\ DOMAIN lookup_selectors = {<<reg_order[1], 0>>, <<reg_order[2], 0>>, <<reg_order[2], 1>>}


\* the position of identity nl in the iteration order of the registry
KeyPos(tabs, nl) == CHOOSE i \in 1..Cardinality(DOMAIN tabs) : KeyAt(tabs, i) = nl

\* C21: when the layout of a table fails during layout_tables, the call returns
\* that failure at once: the failing layout is the last one the call invoked,
\* no table later in registry order is laid out and each keeps its assigned
\* flag, and the tables laid out earlier in the call are assigned; when an
\* operation's own layout fails, layout returns that failure and does not run
\* the safety check.
C21_FailuresReturnedAtOnce ==
    [][/\ (last'.op = "layout_tables" /\ \E i \in DOMAIN last'.laid : ~last'.laid[i].ok) =>
             LET laid == last'.laid
                 failed == laid[Len(laid)].nl
             IN /\ last'.result = Err
                /\ ~laid[Len(laid)].ok
                /\ \A i \in 1..(Len(laid) - 1) : laid[i].ok
                /\ DOMAIN tables' = DOMAIN tables
                /\ \A nl \in DOMAIN tables :
                      /\ KeyPos(tables, nl) > KeyPos(tables, failed) =>
                            /\ LaidCount(laid, nl) = 0
                            /\ tables'[nl] = tables[nl]
                      /\ KeyPos(tables, nl) < KeyPos(tables, failed) =>
                            /\ tables'[nl].is_assigned
                            /\ LaidCount(laid, nl) = IF tables[nl].is_assigned THEN 0 ELSE 1
       /\ (last'.op = "layout" /\ last'.args[4].kind = "Err") =>
             /\ last'.result = last'.args[4]
             /\ ~last'.checked
             /\ aggregate' = aggregate]_vars

\* layout_tables has failed on the first of two unassigned tables, and the
\* second is still unassigned
C21_Witness ==
    /\ last.op = "layout_tables"
    /\ last.result = Err
    /\ Cardinality(DOMAIN tables) = 2
    /\ Len(last.laid) = 1
    /\ last.laid[1].nl = KeyAt(tables, 1)
    /\ ~tables[KeyAt(tables, 1)].is_assigned
    /\ ~tables[KeyAt(tables, 2)].is_assigned

====
